---- MODULE Spec2Model ----
(***************************************************************************)
(* Model of ResourceService.move_to_position and of the tree queries it    *)
(* relies on (ziggurat_foundations/models/services/resource.py).           *)
(*                                                                         *)
(* The resources table is the pair of functions parent_id / ordering over  *)
(* the fixed set of rows (this service never inserts or deletes a row).    *)
(* SQL NULL / Python None is NONE, the `noop` default of new_parent_id is  *)
(* NOOP, and MissingId is an id that names no row.                         *)
(***************************************************************************)
EXTENDS Integers, FiniteSets, Sequences, TLC

NumRes == 4
MaxCalls == 2
MaxTxPosition == 2

NONE == 0
NOOP == 0 - 1

Resources == 1..NumRes
MissingId == NumRes + 1
ResourceIds == Resources \cup {MissingId}
ParentArgs == {NOOP, NONE} \cup Resources \cup {MissingId}
Positions == 0..(NumRes + 1)

Txns == 1..2
TxPositions == 1..MaxTxPosition
FREE == NONE

\* The table, then the single caller of the sequential specification.
VARIABLES parent_id, ordering, pc, call, outcome, old_parent_id, old_ordering, ncalls

\* Concurrent transactions: the statement each is at, its arguments, the row
\* locks, the loaded `resource` object, the uncommitted writes (NOOP where a
\* row is not written), the rows a running bulk UPDATE has still to visit,
\* and how the call ended.
VARIABLES tpc, targs, rowlock, resource, tx_parent_id, tx_ordering, todo, toutcome

\* The permission tables of one resource and the call made against them.
VARIABLES perm_db, perm_call, perm_result

\* The resources table the subtree queries read, the query made, the rows it
\* returned and the structure build_subtree_strut made of them.
VARIABLES nav_table, nav_call, nav_rows, nav_strut

db == <<parent_id, ordering>>
seqvars == <<pc, call, outcome, old_parent_id, old_ordering, ncalls>>
txvars == <<tpc, targs, rowlock, resource, tx_parent_id, tx_ordering, todo, toutcome>>
permvars == <<perm_db, perm_call, perm_result>>
navvars == <<nav_table, nav_call, nav_rows, nav_strut>>
readvars == <<perm_db, perm_call, perm_result, nav_table, nav_call, nav_rows, nav_strut>>
vars == <<parent_id, ordering, pc, call, outcome, old_parent_id, old_ordering, ncalls,
          tpc, targs, rowlock, resource, tx_parent_id, tx_ordering, todo, toutcome,
          perm_db, perm_call, perm_result, nav_table, nav_call, nav_rows, nav_strut>>

NoCall == [resource_id |-> NONE, to_position |-> 0, new_parent_id |-> NOOP]

\* No permission call made: empty tables, a resource nobody owns.
NoPermCall ==
    [fn |-> "none", user |-> NONE, perm_name |-> "", user_ids |-> <<>>,
     group_ids |-> <<>>, limit_group_permissions |-> FALSE,
     skip_group_perms |-> FALSE]

NoGrants ==
    [users_groups |-> {}, user_perms |-> {}, group_perms |-> {},
     owner_user_id |-> NONE, owner_group_id |-> NONE]

NoTuples == [raised |-> "none", tuples |-> {}]

PermIdle ==
    /\ perm_db = NoGrants
    /\ perm_call = NoPermCall
    /\ perm_result = NoTuples

\* No subtree query made.
NoNavCall == [fn |-> "none", id |-> NONE, limit_depth |-> 0, built |-> FALSE]

\* root_elem of build_subtree_strut (line 305); an OrderedDict is the
\* sequence of its <<key, value>> pairs in insertion order.
root_elem == [node |-> NONE, children |-> <<>>]

NoStrut == [raised |-> "none", strut |-> root_elem]

NavIdle ==
    /\ nav_table = [par |-> <<NONE>>, ord |-> <<1>>]
    /\ nav_call = NoNavCall
    /\ nav_rows = <<>>
    /\ nav_strut = NoStrut

(***************************************************************************)
(* Queries                                                                 *)
(***************************************************************************)

\* query.filter(cls.model.parent_id == pid): the rows whose parent is pid
\* (a None pid renders as "parent_id IS NULL").
Children(par, pid) == {x \in Resources : par[x] = pid}

\* lock_resource_for_update(...).first(): the row, or None when no row has
\* that id (in particular for a None id).
lock_resource_for_update(id) == IF id \in Resources THEN id ELSE NONE

\* The recursive CTE of path_upper: the anchor row, then repeatedly the row
\* whose resource_id is the previous row's parent_id.  depth is the CTE's
\* depth column; the default limit_depth is far above any depth reached.
RECURSIVE subtree_upper(_, _, _)
subtree_upper(par, id, depth) ==
    IF id \notin Resources \/ depth > NumRes + 1
    THEN {}
    ELSE {id} \cup subtree_upper(par, par[id], depth + 1)

PathUpperAnchorOnly(par, object_id) ==
    IF object_id \in Resources THEN {object_id} ELSE {}

PathUpperTwoLevels(par, object_id) ==
    IF object_id \in Resources THEN {object_id, par[object_id]} ELSE {}

path_upper(par, object_id) == subtree_upper(par, object_id, 1)

\* item_count: the number of rows under the effective target parent.
item_count(par, r, np) ==
    LET pid == IF np = NOOP THEN par[r] ELSE np
    IN  Cardinality(Children(par, pid))

(***************************************************************************)
(* Validation: the exception move_to_position raises, or "True".           *)
(* "AttributeError" is the failure of resource.parent_id on a missing row  *)
(* and of parent.resource_id when the moved row has no parent.             *)
(***************************************************************************)
\* line 382: a reparent to the parent the row already has.
same_parent(par, r, np) == np = par[r] /\ np # NOOP

\* lines 385-391: the prospective parent was given, is not None and no row
\* has its id.
ParentMissingAlsoNone(np) ==
    np # NOOP /\ lock_resource_for_update(np) = NONE

parent_missing(np) ==
    np # NOOP /\ lock_resource_for_update(np) = NONE /\ np # NONE

\* lines 393-398: the moved row is on the path from the new parent upwards.
into_itself(par, r, np) == np # NOOP /\ r \in path_upper(par, np)

\* lines 399-401
SamePositionAnyParent(ord, r, p, np) == p = ord[r]

same_position(ord, r, p, np) == p = ord[r] /\ np = NOOP

\* lines 402-404
below_one(p) == p < 1

\* lines 406-413
check_boundary(par, r, p, np) ==
    \/ (p > item_count(par, r, np) /\ np = NOOP)
    \/ p > item_count(par, r, np) + 1

validate(par, ord, r, p, np) ==
    IF lock_resource_for_update(r) = NONE THEN "AttributeError"
    ELSE IF same_parent(par, r, np) THEN "TreePath"
    ELSE IF parent_missing(np) THEN "TreeMissing"
    ELSE IF into_itself(par, r, np) THEN "TreePath"
    ELSE IF same_position(ord, r, p, np) THEN "WrongPosition"
    ELSE IF below_one(p) THEN "OutOfBoundary"
    ELSE IF check_boundary(par, r, p, np) THEN "OutOfBoundary"
    ELSE IF np = NOOP /\ lock_resource_for_update(par[r]) = NONE
         THEN "AttributeError"
    ELSE "True"

DomainErrors == {"TreeMissing", "TreePath", "WrongPosition", "OutOfBoundary"}
Outcomes == DomainErrors \cup {"AttributeError", "True", "none"}

(***************************************************************************)
(* Updates                                                                 *)
(***************************************************************************)
Min(a, b) == IF a < b THEN a ELSE b
Max(a, b) == IF a < b THEN b ELSE a

\* Same branch: rows of the parent whose ordering is between the old and the
\* new position get +1 (move_down) or -1 (same_branch_update), then the moved
\* row's ordering is set and flushed.
SameBranchNoShift(par, ord, r, p) == [ord EXCEPT ![r] = p]

same_branch_update(par, ord, r, p) ==
    LET lo == Min(ord[r], p)
        hi == Max(ord[r], p)
        move_down == ord[r] > p
    IN  [x \in Resources |->
            IF par[x] = par[r] /\ ord[x] >= lo /\ ord[x] <= hi
            THEN (IF move_down THEN ord[x] + 1 ELSE ord[x] - 1)
            ELSE ord[x]]

same_branch(par, ord, r, p) ==
    [same_branch_update(par, ord, r, p) EXCEPT ![r] = p]

\* Between branches, first update: rows of the old parent whose ordering is
\* above the moved row's get +1.
OldBranchShiftFromMoved(par, ord, r) ==
    [x \in Resources |->
        IF par[x] = par[r] /\ ord[x] >= ord[r] - 1 THEN ord[x] + 1 ELSE ord[x]]

old_branch_shift(par, ord, r) ==
    [x \in Resources |->
        IF par[x] = par[r] /\ ord[x] > ord[r] THEN ord[x] + 1 ELSE ord[x]]

\* Between branches, second update: rows of the new parent whose ordering is
\* at or above to_position get +1.
NewBranchShiftStrict(par, ord, np, p) ==
    [x \in Resources |->
        IF par[x] = np /\ ord[x] > p THEN ord[x] + 1 ELSE ord[x]]

NewBranchShiftAnyParent(par, ord, np, p) ==
    [x \in Resources |-> IF ord[x] >= p THEN ord[x] + 1 ELSE ord[x]]

NewBranchNoShift(par, ord, np, p) == ord

new_branch_shift(par, ord, np, p) ==
    [x \in Resources |->
        IF par[x] = np /\ ord[x] >= p THEN ord[x] + 1 ELSE ord[x]]

\* The whole handler on a table state: the outcome and the table it leaves.
MoveShiftBeforeBoundary(par, ord, r, p, np) ==
    LET res == validate(par, ord, r, p, np)
        o1 == IF np = NOOP THEN ord ELSE old_branch_shift(par, ord, r)
    IN  IF res = "OutOfBoundary" /\ ~below_one(p)
        THEN [outcome |-> res, parent_id |-> par, ordering |-> o1]
        ELSE IF res # "True"
        THEN [outcome |-> res, parent_id |-> par, ordering |-> ord]
        ELSE IF np = NOOP
        THEN [outcome |-> "True", parent_id |-> par,
              ordering |-> same_branch(par, ord, r, p)]
        ELSE [outcome |-> "True",
              parent_id |-> [par EXCEPT ![r] = np],
              ordering |-> [new_branch_shift(par, o1, np, p) EXCEPT ![r] = p]]

move_to_position(par, ord, r, p, np) ==
    LET res == validate(par, ord, r, p, np)
    IN  IF res # "True"
        THEN [outcome |-> res, parent_id |-> par, ordering |-> ord]
        ELSE IF np = NOOP
        THEN [outcome |-> "True", parent_id |-> par,
              ordering |-> same_branch(par, ord, r, p)]
        ELSE LET o1 == old_branch_shift(par, ord, r)
                 o2 == new_branch_shift(par, o1, np, p)
             IN  [outcome |-> "True",
                  parent_id |-> [par EXCEPT ![r] = np],
                  ordering |-> [o2 EXCEPT ![r] = p]]

(***************************************************************************)
(* Initial forests: every sibling group numbered 1..N.                     *)
(***************************************************************************)
FlatForest ==
    [par |-> [x \in Resources |-> NONE], ord |-> [x \in Resources |-> x]]
ChainForest ==
    [par |-> [x \in Resources |-> x - 1], ord |-> [x \in Resources |-> 1]]
StarForest ==
    [par |-> [x \in Resources |-> IF x = 1 THEN NONE ELSE 1],
     ord |-> [x \in Resources |-> IF x = 1 THEN 1 ELSE x - 1]]
PairForest ==
    [par |-> [x \in Resources |-> IF x <= 2 THEN NONE ELSE x - 2],
     ord |-> [x \in Resources |-> IF x <= 2 THEN x ELSE 1]]
InitForests == {FlatForest, ChainForest, StarForest, PairForest}

\* No call is in progress and no transaction is open.
CallersIdle ==
    /\ pc = "idle"
    /\ call = NoCall
    /\ outcome = "none"
    /\ old_parent_id = parent_id
    /\ old_ordering = ordering
    /\ ncalls = 0
    /\ tpc = [t \in Txns |-> "idle"]
    /\ targs = [t \in Txns |-> NoCall]
    /\ rowlock = [x \in Resources |-> FREE]
    /\ resource = [t \in Txns |-> [parent_id |-> NONE, ordering |-> 0]]
    /\ tx_parent_id = [t \in Txns |-> [x \in Resources |-> NOOP]]
    /\ tx_ordering = [t \in Txns |-> [x \in Resources |-> NOOP]]
    /\ todo = [t \in Txns |-> {}]
    /\ toutcome = [t \in Txns |-> "none"]

Init ==
    /\ \E f \in InitForests : parent_id = f.par /\ ordering = f.ord
    /\ CallersIdle
    /\ PermIdle
    /\ NavIdle

(***************************************************************************)
(* One caller, one call at a time.                                         *)
(***************************************************************************)
Call(r, p, np) ==
    /\ pc = "idle"
    /\ ncalls < MaxCalls
    /\ pc' = "called"
    /\ call' = [resource_id |-> r, to_position |-> p, new_parent_id |-> np]
    /\ ncalls' = ncalls + 1
    /\ UNCHANGED <<parent_id, ordering, outcome, old_parent_id, old_ordering>>
    /\ UNCHANGED <<txvars, readvars>>

MoveToPosition ==
    /\ pc = "called"
    /\ LET m == move_to_position(parent_id, ordering, call.resource_id,
                                 call.to_position, call.new_parent_id)
       IN  /\ outcome' = m.outcome
           /\ parent_id' = m.parent_id
           /\ ordering' = m.ordering
    /\ old_parent_id' = parent_id
    /\ old_ordering' = ordering
    /\ pc' = "returned"
    /\ UNCHANGED <<call, ncalls>>
    /\ UNCHANGED <<txvars, readvars>>

Return ==
    /\ pc = "returned"
    /\ pc' = "idle"
    /\ call' = NoCall
    /\ outcome' = "none"
    /\ old_parent_id' = parent_id
    /\ old_ordering' = ordering
    /\ UNCHANGED <<parent_id, ordering, ncalls>>
    /\ UNCHANGED <<txvars, readvars>>

Next ==
    \/ \E r \in ResourceIds, p \in Positions, np \in ParentArgs : Call(r, p, np)
    \/ MoveToPosition
    \/ Return

Spec == Init /\ [][Next]_vars

TypeOK ==
    /\ parent_id \in [Resources -> Resources \cup {NONE}]
    /\ ordering \in [Resources -> Int]
    /\ pc \in {"idle", "called", "returned"}
    /\ outcome \in Outcomes
    /\ ncalls \in 0..MaxCalls
    /\ rowlock \in [Resources -> Txns \cup {FREE}]
    /\ todo \in [Txns -> SUBSET Resources]
    /\ toutcome \in [Txns -> Outcomes \cup {"Deadlock"}]
    /\ \A t \in Txns :
         /\ tx_parent_id[t] \in [Resources -> Resources \cup {NONE, NOOP}]
         /\ tx_ordering[t] \in [Resources -> Int]

(***************************************************************************)
(* Concurrent transactions.  Each statement the handler sends is one step. *)
(* The database is PostgreSQL at its default READ COMMITTED level, which   *)
(* the handler does not change: a statement reads the rows as last         *)
(* committed, overlaid with the transaction's own writes; SELECT ... FOR   *)
(* UPDATE and UPDATE take the row's lock and wait while another            *)
(* transaction holds it; locks are held until commit or rollback.  A bulk  *)
(* UPDATE picks its rows when it starts and visits them in an order the    *)
(* handler does not control; a row is re-checked against the WHERE clause  *)
(* in its latest committed version when it is visited.  When each          *)
(* transaction waits for a lock of the other, the database aborts one.     *)
(***************************************************************************)
ViewParent(t) ==
    [x \in Resources |->
        IF tx_parent_id[t][x] # NOOP THEN tx_parent_id[t][x] ELSE parent_id[x]]

ViewOrdering(t) ==
    [x \in Resources |->
        IF tx_ordering[t][x] # NOOP THEN tx_ordering[t][x] ELSE ordering[x]]

\* The table as the handler of t sees it: the view, with the moved row's
\* fields as loaded into `resource` by line 376.
LoadedParent(t) ==
    [ViewParent(t) EXCEPT ![targs[t].resource_id] = resource[t].parent_id]

LoadedOrdering(t) ==
    [ViewOrdering(t) EXCEPT ![targs[t].resource_id] = resource[t].ordering]

Lockable(t, x) == rowlock[x] \in {FREE, t}

ReleaseLocks(t) ==
    [x \in Resources |-> IF rowlock[x] = t THEN FREE ELSE rowlock[x]]

NoWrites == [x \in Resources |-> NOOP]

\* An exception leaves the handler (or the database aborts the transaction):
\* the transaction is rolled back.
Raise(t, e) ==
    /\ tpc' = [tpc EXCEPT ![t] = "raised"]
    /\ toutcome' = [toutcome EXCEPT ![t] = e]
    /\ rowlock' = ReleaseLocks(t)
    /\ tx_parent_id' = [tx_parent_id EXCEPT ![t] = NoWrites]
    /\ tx_ordering' = [tx_ordering EXCEPT ![t] = NoWrites]
    /\ todo' = [todo EXCEPT ![t] = {}]

\* The handler goes on to its next statement, holding the locks it took.
Goto(t, next, newlocks) ==
    /\ tpc' = [tpc EXCEPT ![t] = next]
    /\ rowlock' = [x \in Resources |-> IF x \in newlocks THEN t ELSE rowlock[x]]
    /\ UNCHANGED <<toutcome, tx_parent_id, tx_ordering, todo>>

\* lines 399-404, which read only the loaded resource
PositionChecks(t, newlocks) ==
    LET a == targs[t]
    IN  IF same_position(LoadedOrdering(t), a.resource_id, a.to_position,
                         a.new_parent_id)
        THEN Raise(t, "WrongPosition")
        ELSE IF below_one(a.to_position)
        THEN Raise(t, "OutOfBoundary")
        ELSE Goto(t, "count", newlocks)

\* A caller starts a call in a transaction of its own.
Begin(t, r, p, np) ==
    /\ tpc[t] = "idle"
    /\ tpc' = [tpc EXCEPT ![t] = "lock_resource"]
    /\ targs' = [targs EXCEPT ![t] =
                   [resource_id |-> r, to_position |-> p, new_parent_id |-> np]]
    /\ UNCHANGED <<db, seqvars, readvars, rowlock, resource, tx_parent_id, tx_ordering,
                   todo, toutcome>>

\* lines 376-378
TxLockResource(t) ==
    /\ tpc[t] = "lock_resource"
    /\ Lockable(t, targs[t].resource_id)
    /\ resource' = [resource EXCEPT ![t] =
                      [parent_id |-> parent_id[targs[t].resource_id],
                       ordering |-> ordering[targs[t].resource_id]]]
    /\ Goto(t, "lock_parent", {targs[t].resource_id})
    /\ UNCHANGED <<db, seqvars, readvars, targs>>

\* lines 379-384, and lines 399-404 when no reparent is asked for
TxReadParentUnlocked(t) ==
    /\ tpc[t] = "lock_parent"
    /\ LET a == targs[t]
       IN  IF same_parent(LoadedParent(t), a.resource_id, a.new_parent_id)
           THEN Raise(t, "TreePath")
           ELSE IF a.new_parent_id # NOOP
           THEN Goto(t, "lock_new_parent", {})
           ELSE PositionChecks(t, {})
    /\ UNCHANGED <<db, seqvars, readvars, targs, resource>>

TxLockParent(t) ==
    /\ tpc[t] = "lock_parent"
    /\ LET pid == resource[t].parent_id
           a == targs[t]
           got == IF lock_resource_for_update(pid) = NONE THEN {} ELSE {pid}
       IN  /\ \A x \in got : Lockable(t, x)
           /\ IF same_parent(LoadedParent(t), a.resource_id, a.new_parent_id)
              THEN Raise(t, "TreePath")
              ELSE IF a.new_parent_id # NOOP
              THEN Goto(t, "lock_new_parent", got)
              ELSE PositionChecks(t, got)
    /\ UNCHANGED <<db, seqvars, readvars, targs, resource>>

\* lines 385-391
TxLockNewParent(t) ==
    /\ tpc[t] = "lock_new_parent"
    /\ LET np == targs[t].new_parent_id
           got == IF lock_resource_for_update(np) = NONE THEN {} ELSE {np}
       IN  /\ \A x \in got : Lockable(t, x)
           /\ IF parent_missing(np)
              THEN Raise(t, "TreeMissing")
              ELSE Goto(t, "path_upper", got)
    /\ UNCHANGED <<db, seqvars, readvars, targs, resource>>

\* lines 393-404
TxPathUpper(t) ==
    /\ tpc[t] = "path_upper"
    /\ IF into_itself(ViewParent(t), targs[t].resource_id, targs[t].new_parent_id)
       THEN Raise(t, "TreePath")
       ELSE PositionChecks(t, {})
    /\ UNCHANGED <<db, seqvars, readvars, targs, resource>>

\* lines 406-413, and the evaluation of parent.resource_id at line 421
TxCount(t) ==
    /\ tpc[t] = "count"
    /\ LET a == targs[t]
       IN  IF check_boundary(LoadedParent(t), a.resource_id, a.to_position,
                             a.new_parent_id)
           THEN Raise(t, "OutOfBoundary")
           ELSE IF a.new_parent_id # NOOP
           THEN Goto(t, "old_branch_update", {})
           ELSE IF lock_resource_for_update(resource[t].parent_id) = NONE
           THEN Raise(t, "AttributeError")
           ELSE Goto(t, "same_branch_update", {})
    /\ UNCHANGED <<db, seqvars, readvars, targs, resource>>

\* The orderings the bulk UPDATE that t is at would leave, on the table as t
\* sees it now (lines 420-428, 433-437, 438-442).
Updated(t) ==
    LET a == targs[t]
    IN  IF tpc[t] \in {"same_branch_update", "same_branch_rows"}
        THEN same_branch_update(LoadedParent(t), LoadedOrdering(t),
                                a.resource_id, a.to_position)
        ELSE IF tpc[t] \in {"old_branch_update", "old_branch_rows"}
        THEN old_branch_shift(LoadedParent(t), LoadedOrdering(t), a.resource_id)
        ELSE new_branch_shift(LoadedParent(t), LoadedOrdering(t),
                              a.new_parent_id, a.to_position)

Matches(t, x) == Updated(t)[x] # LoadedOrdering(t)[x]

RowsOf(stmt) ==
    IF stmt = "same_branch_update" THEN "same_branch_rows"
    ELSE IF stmt = "old_branch_update" THEN "old_branch_rows"
    ELSE "new_branch_rows"

AfterRows(rows) ==
    IF rows = "old_branch_rows" THEN "new_branch_update" ELSE "flush"

\* A bulk UPDATE starts: it picks the rows that match its WHERE clause.
TxUpdateBegin(t) ==
    /\ tpc[t] \in {"same_branch_update", "old_branch_update", "new_branch_update"}
    /\ LET rows == {x \in Resources : Matches(t, x)}
       IN  /\ todo' = [todo EXCEPT ![t] = rows]
           /\ tpc' = [tpc EXCEPT ![t] =
                        IF rows = {} THEN AfterRows(RowsOf(tpc[t]))
                        ELSE RowsOf(tpc[t])]
    /\ UNCHANGED <<db, seqvars, readvars, targs, resource, rowlock, toutcome,
                   tx_parent_id, tx_ordering>>

\* The bulk UPDATE visits one of its rows: it waits for the row's lock, and
\* writes the row if its latest version still matches.
TxUpdateRow(t, x) ==
    /\ tpc[t] \in {"same_branch_rows", "old_branch_rows", "new_branch_rows"}
    /\ x \in todo[t]
    /\ Lockable(t, x)
    /\ IF Matches(t, x)
       THEN /\ tx_ordering' = [tx_ordering EXCEPT ![t][x] = Updated(t)[x]]
            /\ rowlock' = [rowlock EXCEPT ![x] = t]
       ELSE UNCHANGED <<tx_ordering, rowlock>>
    /\ todo' = [todo EXCEPT ![t] = todo[t] \ {x}]
    /\ tpc' = [tpc EXCEPT ![t] =
                 IF todo[t] = {x} THEN AfterRows(tpc[t]) ELSE tpc[t]]
    /\ UNCHANGED <<db, seqvars, readvars, targs, resource, toutcome, tx_parent_id>>

\* lines 429-430 and 443-445: the moved row is written and flushed.
TxFlush(t) ==
    /\ tpc[t] = "flush"
    /\ LET a == targs[t]
       IN  /\ tx_ordering' = [tx_ordering EXCEPT ![t][a.resource_id] = a.to_position]
           /\ tx_parent_id' =
                IF a.new_parent_id = NOOP THEN tx_parent_id
                ELSE [tx_parent_id EXCEPT ![t][a.resource_id] = a.new_parent_id]
    /\ tpc' = [tpc EXCEPT ![t] = "commit"]
    /\ UNCHANGED <<db, seqvars, readvars, targs, resource, rowlock, todo, toutcome>>

\* line 446: the handler returns True and its caller commits.
TxCommit(t) ==
    /\ tpc[t] = "commit"
    /\ parent_id' = ViewParent(t)
    /\ ordering' = ViewOrdering(t)
    /\ tpc' = [tpc EXCEPT ![t] = "committed"]
    /\ toutcome' = [toutcome EXCEPT ![t] = "True"]
    /\ rowlock' = ReleaseLocks(t)
    /\ tx_parent_id' = [tx_parent_id EXCEPT ![t] = NoWrites]
    /\ tx_ordering' = [tx_ordering EXCEPT ![t] = NoWrites]
    /\ UNCHANGED <<seqvars, readvars, targs, resource, todo>>

\* t cannot go on before another transaction releases a row lock.
Blocked(t) ==
    \/ tpc[t] = "lock_resource" /\ ~Lockable(t, targs[t].resource_id)
    \/ /\ tpc[t] = "lock_parent"
       /\ resource[t].parent_id \in Resources
       /\ ~Lockable(t, resource[t].parent_id)
    \/ /\ tpc[t] = "lock_new_parent"
       /\ targs[t].new_parent_id \in Resources
       /\ ~Lockable(t, targs[t].new_parent_id)
    \/ /\ tpc[t] \in {"same_branch_rows", "old_branch_rows", "new_branch_rows"}
       /\ \A x \in todo[t] : ~Lockable(t, x)

Deadlocked == \A t \in Txns : Blocked(t)

\* The database's deadlock detector aborts one of the waiting transactions.
DeadlockAbort(t) ==
    /\ Deadlocked
    /\ Raise(t, "Deadlock")
    /\ UNCHANGED <<db, seqvars, readvars, targs, resource>>

NextTx ==
    \/ \E t \in Txns, r \in Resources, p \in TxPositions, np \in ParentArgs :
         Begin(t, r, p, np)
    \/ \E t \in Txns : TxLockResource(t)
    \/ \E t \in Txns : TxLockParent(t)
    \/ \E t \in Txns : TxLockNewParent(t)
    \/ \E t \in Txns : TxPathUpper(t)
    \/ \E t \in Txns : TxCount(t)
    \/ \E t \in Txns : TxUpdateBegin(t)
    \/ \E t \in Txns, x \in Resources : TxUpdateRow(t, x)
    \/ \E t \in Txns : TxFlush(t)
    \/ \E t \in Txns : TxCommit(t)
    \/ \E t \in Txns : DeadlockAbort(t)

SpecTx == Init /\ [][NextTx]_vars

(***************************************************************************)
(* Permission resolution on one resource (`instance`).  perm_db holds the  *)
(* group memberships, the UserResourcePermission and GroupResourcePermission*)
(* rows of the resource as (principal id, perm_name) pairs, and the         *)
(* resource's two owner fields.  A returned list of tuples is the set of   *)
(* its elements.  An optional list argument is <<>> for None and <<S>> for  *)
(* the list of the ids in S.                                                *)
(***************************************************************************)
NumUsers == 2
NumGroups == 1

Users == 1..NumUsers
Groups == 1..NumGroups
PermNames == {"read"}

ANY_PERMISSION == "__any_permission__"
ALL_PERMISSIONS == "__all_permissions__"

\* The named tuple of ziggurat_foundations.permissions: seven fields, each
\* of them required.
PermissionTuple(user, perm_name, type, group, res, owner, allowed) ==
    [user |-> user, perm_name |-> perm_name, type |-> type, group |-> group,
     resource |-> res, owner |-> owner, allowed |-> allowed]

\* user.groups, and group.users
groups_dict(pdb, u) == {g \in Groups : <<u, g>> \in pdb.users_groups}
group_users(pdb, g) == {u \in Users : <<u, g>> \in pdb.users_groups}

Listed(ids, x) == ids = <<>> \/ x \in ids[1]

\* resource_permissions_for_users of ziggurat_foundations.permissions: the
\* grants on the resource for the asked permission names (all of them for
\* ANY_PERMISSION), narrowed to the listed users and groups.  A group grant
\* yields one tuple per member of the group, or a single tuple without a
\* user under limit_group_permissions.
resource_permissions_for_users(pdb, perm_names, user_ids, group_ids, limit_group_permissions, skip_user_perms, skip_group_perms) ==
    LET asked(n) == ANY_PERMISSION \in perm_names \/ n \in perm_names
        group_rows == {row \in pdb.group_perms :
                          asked(row[2]) /\ Listed(group_ids, row[1])}
        per_group == {PermissionTuple(NONE, row[2], "group", row[1], "instance",
                                      FALSE, TRUE) : row \in group_rows}
        per_member ==
            UNION {{PermissionTuple(u, row[2], "group", row[1], "instance",
                                    FALSE, TRUE) :
                       u \in {m \in group_users(pdb, row[1]) : Listed(user_ids, m)}} :
                   row \in group_rows}
        user_rows == {row \in pdb.user_perms :
                         asked(row[2]) /\ Listed(user_ids, row[1])}
        direct == {PermissionTuple(row[1], row[2], "user", NONE, "instance",
                                   FALSE, TRUE) : row \in user_rows}
    IN  (IF skip_group_perms THEN {}
         ELSE IF limit_group_permissions THEN per_group ELSE per_member)
        \cup (IF skip_user_perms THEN {} ELSE direct)

\* lines 43-75: the union of the user's group grants and direct grants
perms_query(pdb, u) ==
    {<<row[1], row[2], "group">> :
        row \in {gp \in pdb.group_perms : gp[1] \in groups_dict(pdb, u)}}
    \cup {<<row[1], row[2], "user">> :
             row \in {up \in pdb.user_perms : up[1] = u}}

\* lines 39-88
perms_for_user(pdb, u) ==
    LET perms == {PermissionTuple(u, row[2], row[3],
                                  IF row[3] = "group" THEN row[1] ELSE NONE,
                                  "instance", FALSE, TRUE) :
                     row \in perms_query(pdb, u)}
        as_owner == IF pdb.owner_user_id = u
                    THEN {PermissionTuple(u, ALL_PERMISSIONS, "user", NONE,
                                          "instance", TRUE, TRUE)}
                    ELSE {}
        as_owner_group == IF pdb.owner_group_id \in groups_dict(pdb, u)
                          THEN {PermissionTuple(u, ALL_PERMISSIONS, "group",
                                                pdb.owner_group_id, "instance",
                                                TRUE, TRUE)}
                          ELSE {}
    IN  [raised |-> "none", tuples |-> perms \cup as_owner \cup as_owner_group]

\* lines 91-114.  The owner's tuple is constructed from six arguments (lines
\* 112-113): the constructor raises TypeError and the call returns nothing.
direct_perms_for_user(pdb, u) ==
    LET perms == {PermissionTuple(u, row[2], "user", NONE, "instance",
                                  FALSE, TRUE) :
                     row \in {up \in pdb.user_perms : up[1] = u}}
    IN  IF pdb.owner_user_id = u
        THEN [raised |-> "TypeError", tuples |-> {}]
        ELSE [raised |-> "none", tuples |-> perms]

\* lines 117-135
group_perms_for_user(pdb, u) ==
    LET perms == {p \in resource_permissions_for_users(
                            pdb, {ANY_PERMISSION}, <<{u}>>, <<>>, FALSE, FALSE,
                            FALSE) : p.type = "group"}
        as_owner_group == IF pdb.owner_group_id \in groups_dict(pdb, u)
                          THEN {PermissionTuple(u, ALL_PERMISSIONS, "group",
                                                pdb.owner_group_id, "instance",
                                                TRUE, TRUE)}
                          ELSE {}
    IN  [raised |-> "none", tuples |-> perms \cup as_owner_group]

\* lines 160-164
owner_user_tuples(pdb) ==
    IF pdb.owner_user_id # NONE
    THEN {PermissionTuple(pdb.owner_user_id, ALL_PERMISSIONS, "user", NONE,
                          "instance", TRUE, TRUE)}
    ELSE {}

\* lines 165-170
OwnerGroupAlways(pdb, skip_group_perms) ==
    IF pdb.owner_group_id # NONE
    THEN {PermissionTuple(u, ALL_PERMISSIONS, "group", pdb.owner_group_id,
                          "instance", TRUE, TRUE) :
             u \in group_users(pdb, pdb.owner_group_id)}
    ELSE {}

OwnerGroupNoMembers(pdb, skip_group_perms) ==
    IF pdb.owner_group_id # NONE /\ ~skip_group_perms
    THEN {PermissionTuple(NONE, ALL_PERMISSIONS, "group", pdb.owner_group_id,
                          "instance", TRUE, TRUE)}
    ELSE {}

owner_group_tuples(pdb, skip_group_perms) ==
    IF pdb.owner_group_id # NONE /\ ~skip_group_perms
    THEN {PermissionTuple(u, ALL_PERMISSIONS, "group", pdb.owner_group_id,
                          "instance", TRUE, TRUE) :
             u \in group_users(pdb, pdb.owner_group_id)}
    ELSE {}

\* lines 138-172
users_for_perm(pdb, perm_name, user_ids, group_ids, limit_group_permissions, skip_group_perms) ==
    [raised |-> "none",
     tuples |-> resource_permissions_for_users(
                    pdb, {perm_name}, user_ids, group_ids,
                    limit_group_permissions, FALSE, skip_group_perms)
                \cup owner_user_tuples(pdb)
                \cup owner_group_tuples(pdb, skip_group_perms)]

\* The permission tables a call may find.
PermDbs ==
    [users_groups : SUBSET (Users \X Groups),
     user_perms : SUBSET (Users \X PermNames),
     group_perms : SUBSET (Groups \X PermNames),
     owner_user_id : Users \cup {NONE},
     owner_group_id : Groups \cup {NONE}]

AskedPermNames == PermNames \cup {"edit", ANY_PERMISSION}
IdLists == {<<>>, <<{1}>>}

InitPerm ==
    /\ parent_id = FlatForest.par /\ ordering = FlatForest.ord
    /\ CallersIdle
    /\ perm_db \in PermDbs
    /\ perm_call = NoPermCall
    /\ perm_result = NoTuples
    /\ NavIdle

PermsForUser(u) ==
    /\ perm_call = NoPermCall
    /\ perm_call' = [NoPermCall EXCEPT !.fn = "perms_for_user", !.user = u]
    /\ perm_result' = perms_for_user(perm_db, u)
    /\ UNCHANGED <<db, seqvars, txvars, navvars, perm_db>>

DirectPermsForUser(u) ==
    /\ perm_call = NoPermCall
    /\ perm_call' = [NoPermCall EXCEPT !.fn = "direct_perms_for_user", !.user = u]
    /\ perm_result' = direct_perms_for_user(perm_db, u)
    /\ UNCHANGED <<db, seqvars, txvars, navvars, perm_db>>

GroupPermsForUser(u) ==
    /\ perm_call = NoPermCall
    /\ perm_call' = [NoPermCall EXCEPT !.fn = "group_perms_for_user", !.user = u]
    /\ perm_result' = group_perms_for_user(perm_db, u)
    /\ UNCHANGED <<db, seqvars, txvars, navvars, perm_db>>

UsersForPerm(perm_name, user_ids, group_ids, limit, skip) ==
    /\ perm_call = NoPermCall
    /\ perm_call' = [fn |-> "users_for_perm", user |-> NONE,
                     perm_name |-> perm_name, user_ids |-> user_ids,
                     group_ids |-> group_ids,
                     limit_group_permissions |-> limit,
                     skip_group_perms |-> skip]
    /\ perm_result' = users_for_perm(perm_db, perm_name, user_ids, group_ids,
                                     limit, skip)
    /\ UNCHANGED <<db, seqvars, txvars, navvars, perm_db>>

NextPerm ==
    \/ \E u \in Users : PermsForUser(u)
    \/ \E u \in Users : DirectPermsForUser(u)
    \/ \E u \in Users : GroupPermsForUser(u)
    \/ \E perm_name \in AskedPermNames, user_ids \in IdLists,
          group_ids \in IdLists, limit \in BOOLEAN, skip \in BOOLEAN :
         UsersForPerm(perm_name, user_ids, group_ids, limit, skip)

SpecPerm == InitPerm /\ [][NextPerm]_vars

(***************************************************************************)
(* Subtree queries.  nav_table is a resources table of any size: par and   *)
(* ord are the parent_id and ordering columns, indexed by resource_id.     *)
(* Text is the sequence of its character codes; ORDER BY compares text     *)
(* character by character, a proper prefix first.                          *)
(***************************************************************************)
MaxNavRows == 11
DefaultLimitDepth == 1000000
Slash == 47
Zero == 48

NavIds(tb) == DOMAIN tb.par
NavChildren(tb, pid) == {x \in NavIds(tb) : tb.par[x] = pid}

\* n::CHARACTER VARYING, the decimal digits of n
RECURSIVE ToText(_)
ToText(n) ==
    IF n < 10 THEN <<Zero + n>>
    ELSE ToText(n \div 10) \o <<Zero + (n % 10)>>

\* int(text)
RECURSIVE ToInt(_)
ToInt(t) ==
    IF t = <<>> THEN 0
    ELSE ToInt(SubSeq(t, 1, Len(t) - 1)) * 10 + (t[Len(t)] - Zero)

\* text.split('/')
RECURSIVE Split(_)
Split(t) ==
    IF \A i \in 1..Len(t) : t[i] # Slash THEN <<t>>
    ELSE LET i == CHOOSE k \in 1..Len(t) :
                     t[k] = Slash /\ \A j \in 1..(k - 1) : t[j] # Slash
         IN  <<SubSeq(t, 1, i - 1)>> \o Split(SubSeq(t, i + 1, Len(t)))

\* a < b as text
TextLess(a, b) ==
    \E i \in 1..Len(b) :
        /\ \A j \in 1..(i - 1) : j <= Len(a) /\ a[j] = b[j]
        /\ (i > Len(a) \/ a[i] < b[i])

\* The non-recursive term of the CTE (lines 237-239, 276-278).
AnchorRow(tb, x) ==
    [resource_id |-> x, depth |-> 1, sorting |-> ToText(tb.ord[x]),
     path |-> ToText(x)]

\* The recursive term (lines 241-245, 280-284): the children of the rows of
\* the previous iteration.
RecursiveTerm(tb, st) ==
    {[resource_id |-> c, depth |-> st.depth + 1,
      sorting |-> st.sorting \o <<Slash>> \o ToText(tb.ord[c]),
      path |-> st.path \o <<Slash>> \o ToText(c)] :
        c \in NavChildren(tb, st.resource_id)}

RECURSIVE subtree(_, _)
subtree(tb, working) ==
    IF working = {} THEN {}
    ELSE working \cup subtree(tb, UNION {RecursiveTerm(tb, st) : st \in working})

RECURSIVE SeqOf(_)
SeqOf(rows) ==
    IF rows = {} THEN <<>>
    ELSE LET r == CHOOSE x \in rows : TRUE IN <<r>> \o SeqOf(rows \ {r})

\* SELECT * FROM subtree WHERE depth<=:depth ORDER BY sorting (lines 247, 286)
select_subtree(rows, limit_depth) ==
    SortSeq(SeqOf({r \in rows : r.depth <= limit_depth}),
            LAMBDA a, b : TextLess(a.sorting, b.sorting))

\* lines 224-254
from_resource_deeper(tb, resource_id, limit_depth) ==
    select_subtree(
        subtree(tb, {AnchorRow(tb, x) : x \in NavIds(tb) \cap {resource_id}}),
        limit_depth)

\* lines 257-293
from_parent_deeper(tb, pid, limit_depth) ==
    LET limiting_clause == IF pid # NONE THEN pid ELSE NONE
    IN  select_subtree(
            subtree(tb, {AnchorRow(tb, x) : x \in NavChildren(tb, limiting_clause)}),
            limit_depth)

\* list(map(int, node.path.split('/'))) (line 310)
ParsePath(path) == [i \in 1..Len(Split(path)) |-> ToInt(Split(path)[i])]

KeyIndex(children, key) ==
    IF \E i \in 1..Len(children) : children[i][1] = key
    THEN CHOOSE i \in 1..Len(children) : children[i][1] = key
    ELSE 0

\* parent_node['children'][path_part] succeeds all along the path (line 315)
RECURSIVE Resolvable(_, _)
Resolvable(elem, path) ==
    \/ path = <<>>
    \/ /\ KeyIndex(elem.children, Head(path)) # 0
       /\ Resolvable(elem.children[KeyIndex(elem.children, Head(path))][2],
                     Tail(path))

\* children[key] = value on an OrderedDict
SetItem(children, key, value) ==
    IF KeyIndex(children, key) # 0
    THEN [children EXCEPT ![KeyIndex(children, key)] = <<key, value>>]
    ELSE Append(children, <<key, value>>)

\* lines 311-316: new_elem is put under the element the path leads to.
RECURSIVE InsertAt(_, _, _)
InsertAt(elem, path, new_elem) ==
    IF path = <<>>
    THEN [elem EXCEPT !.children = SetItem(@, new_elem.node, new_elem)]
    ELSE LET i == KeyIndex(elem.children, Head(path))
         IN  [elem EXCEPT !.children[i] =
                 <<@[1], InsertAt(@[2], Tail(path), new_elem)>>]

\* lines 308-316
RECURSIVE BuildLoop(_, _, _)
BuildLoop(items, i, root) ==
    IF i > Len(items) THEN [raised |-> "none", strut |-> root]
    ELSE LET node == items[i]
             new_elem == [node |-> node.resource_id, children |-> <<>>]
             path == ParsePath(node.path)
             normalized_path == SubSeq(path, 1, Len(path) - 1)
         IN  IF ~Resolvable(root, normalized_path)
             THEN [raised |-> "KeyError", strut |-> root]
             ELSE BuildLoop(items, i + 1, InsertAt(root, normalized_path, new_elem))

\* lines 296-317
BuildUnwrapSingle(items) ==
    IF Len(items) = 1
    THEN [raised |-> "none",
          strut |-> [node |-> items[1].resource_id, children |-> <<>>]]
    ELSE BuildLoop(items, 1, root_elem)

build_subtree_strut(items) ==
    IF Len(items) = 0 THEN [raised |-> "none", strut |-> root_elem]
    ELSE BuildLoop(items, 1, root_elem)

\* Tables of n rows: all roots (numbered by id, or against it), one root
\* with all others under it, one chain, and a binary tree.
NavFlat(n) == [par |-> [x \in 1..n |-> NONE], ord |-> [x \in 1..n |-> x]]
NavFlatReversed(n) ==
    [par |-> [x \in 1..n |-> NONE], ord |-> [x \in 1..n |-> n + 1 - x]]
NavStar(n) ==
    [par |-> [x \in 1..n |-> IF x = 1 THEN NONE ELSE 1],
     ord |-> [x \in 1..n |-> IF x = 1 THEN 1 ELSE x - 1]]
NavChain(n) ==
    [par |-> [x \in 1..n |-> IF x = 1 THEN NONE ELSE x - 1],
     ord |-> [x \in 1..n |-> 1]]
NavBinary(n) ==
    [par |-> [x \in 1..n |-> IF x = 1 THEN NONE ELSE x \div 2],
     ord |-> [x \in 1..n |-> IF x = 1 THEN 1 ELSE (x % 2) + 1]]

NavTables ==
    UNION {{NavFlat(n), NavFlatReversed(n), NavStar(n), NavChain(n), NavBinary(n)} :
           n \in 1..MaxNavRows}

NavArgs == 0..(MaxNavRows + 1)
LimitDepths == {1, 2, DefaultLimitDepth}

InitNav ==
    /\ parent_id = FlatForest.par /\ ordering = FlatForest.ord
    /\ CallersIdle
    /\ PermIdle
    /\ nav_table \in NavTables
    /\ nav_call = NoNavCall
    /\ nav_rows = <<>>
    /\ nav_strut = NoStrut

FromResourceDeeper(resource_id, limit_depth) ==
    /\ nav_call = NoNavCall
    /\ resource_id <= Len(nav_table.par) + 1
    /\ nav_call' = [fn |-> "from_resource_deeper", id |-> resource_id,
                    limit_depth |-> limit_depth, built |-> FALSE]
    /\ nav_rows' = from_resource_deeper(nav_table, resource_id, limit_depth)
    /\ UNCHANGED <<db, seqvars, txvars, permvars, nav_table, nav_strut>>

FromParentDeeper(parent_id_arg, limit_depth) ==
    /\ nav_call = NoNavCall
    /\ parent_id_arg <= Len(nav_table.par) + 1
    /\ nav_call' = [fn |-> "from_parent_deeper", id |-> parent_id_arg,
                    limit_depth |-> limit_depth, built |-> FALSE]
    /\ nav_rows' = from_parent_deeper(nav_table, parent_id_arg, limit_depth)
    /\ UNCHANGED <<db, seqvars, txvars, permvars, nav_table, nav_strut>>

BuildSubtreeStrut ==
    /\ nav_call.fn # "none"
    /\ ~nav_call.built
    /\ nav_call' = [nav_call EXCEPT !.built = TRUE]
    /\ nav_strut' = build_subtree_strut(nav_rows)
    /\ UNCHANGED <<db, seqvars, txvars, permvars, nav_table, nav_rows>>

NextNav ==
    \/ \E resource_id \in NavArgs, limit_depth \in LimitDepths :
         FromResourceDeeper(resource_id, limit_depth)
    \/ \E parent_id_arg \in NavArgs, limit_depth \in LimitDepths :
         FromParentDeeper(parent_id_arg, limit_depth)
    \/ BuildSubtreeStrut

SpecNav == InitNav /\ [][NextNav]_vars

(***************************************************************************)
(* Vocabulary of the properties                                            *)
(***************************************************************************)
Returned == pc = "returned"
Succeeded == pc = "returned" /\ outcome = "True"
Reparent == call.new_parent_id # NOOP
Moved == call.resource_id

\* The ordering values of the children of pid.
OrderingsUnder(par, ord, pid) == {ord[x] : x \in Children(par, pid)}

\* The children of pid are numbered exactly 1..N.
Numbered(par, ord, pid) ==
    LET kids == Children(par, pid)
    IN  /\ OrderingsUnder(par, ord, pid) = 1..Cardinality(kids)
        /\ \A x, y \in kids : ord[x] = ord[y] => x = y

\* The n-th ancestor of x (NONE above a root).
RECURSIVE Up(_, _, _)
Up(par, x, n) ==
    IF n = 0 \/ x = NONE THEN x ELSE Up(par, par[x], n - 1)

Acyclic(par) == \A x \in Resources : Up(par, x, NumRes) = NONE

\* d lies strictly below r.
IsDescendant(par, d, r) ==
    d \in Resources /\ \E n \in 1..NumRes : Up(par, d, n) = r

\* C1: after any sequence of successful moves every parent's children
\* (the forest root's included) are numbered exactly 1..N.
C1_SiblingsNumbered ==
    \A pid \in Resources \cup {NONE} : Numbered(parent_id, ordering, pid)

\* C2: after any sequence of calls, succeeding or raising, no resource is
\* its own ancestor.
C2_Acyclic == Acyclic(parent_id)

C2_Witness ==
    /\ Succeeded /\ ncalls >= 2
    /\ call.new_parent_id \in Resources
    /\ old_parent_id[Moved] \in Resources
    /\ parent_id[call.new_parent_id] \in Resources

\* C3: under every interleaving of two concurrent transactions the committed
\* parent relation stays acyclic.
C3_ConcurrentAcyclic == Acyclic(parent_id)

\* C4: a same-branch move of R from ordering i to j, 1 <= j <= N, j # i,
\* among siblings numbered 1..N under a parent P succeeds with R at j, the
\* siblings in [j, i) one higher (j < i), the siblings in (i, j] one lower
\* (j > i), and every other row as it was.
C4_SameBranchReorder ==
    (/\ Returned /\ ~Reparent /\ Moved \in Resources
     /\ old_parent_id[Moved] \in Resources
     /\ Numbered(old_parent_id, old_ordering, old_parent_id[Moved])
     /\ call.to_position >= 1
     /\ call.to_position <= Cardinality(Children(old_parent_id, old_parent_id[Moved]))
     /\ call.to_position # old_ordering[Moved])
    => LET i == old_ordering[Moved]
           j == call.to_position
       IN  /\ outcome = "True"
           /\ ordering[Moved] = j
           /\ parent_id = old_parent_id
           /\ \A s \in Resources \ {Moved} :
                IF old_parent_id[s] = old_parent_id[Moved] /\ j < i
                   /\ old_ordering[s] >= j /\ old_ordering[s] < i
                THEN ordering[s] = old_ordering[s] + 1
                ELSE IF old_parent_id[s] = old_parent_id[Moved] /\ j > i
                        /\ old_ordering[s] > i /\ old_ordering[s] <= j
                THEN ordering[s] = old_ordering[s] - 1
                ELSE ordering[s] = old_ordering[s]

\* The move of the last of three siblings to the front (A=1, B=2, C=3, move
\* C to 1): two siblings are shifted up.
C4_Witness ==
    /\ Succeeded /\ ~Reparent
    /\ old_ordering[Moved] = 3 /\ ordering[Moved] = 1
    /\ \E a, b \in Resources \ {Moved} :
         /\ old_ordering[a] = 1 /\ ordering[a] = 2
         /\ old_ordering[b] = 2 /\ ordering[b] = 3
         /\ parent_id[a] = parent_id[Moved] /\ parent_id[b] = parent_id[Moved]

\* C5: after a successful reparent of X to Q (a resource, or None for the
\* forest root) at p, X.parent_id = Q and X.ordering = p, every previous
\* child of Q at or above p is one higher, every previous child below p is
\* as it was, and Q's children are 1..M+1 when they were 1..M.
C5_Reparent ==
    (Succeeded /\ Reparent)
    => LET Q == call.new_parent_id
           p == call.to_position
           before == Children(old_parent_id, Q)
       IN  /\ parent_id[Moved] = Q
           /\ ordering[Moved] = p
           /\ \A c \in before :
                /\ parent_id[c] = Q
                /\ old_ordering[c] >= p => ordering[c] = old_ordering[c] + 1
                /\ old_ordering[c] < p => ordering[c] = old_ordering[c]
           /\ Children(parent_id, Q) = before \cup {Moved}
           /\ Numbered(old_parent_id, old_ordering, Q)
                => Numbered(parent_id, ordering, Q)

\* A reparent between two previous children of Q: one stays, one is shifted.
C5_Witness ==
    /\ Succeeded /\ Reparent /\ call.new_parent_id \in Resources
    /\ \E c, d \in Children(old_parent_id, call.new_parent_id) :
         /\ ordering[c] = old_ordering[c]
         /\ ordering[d] = old_ordering[d] + 1

\* C6: a move of R under R itself or under a descendant of R, at any depth
\* and for any position, raises the tree-path error and changes nothing.
C6_IntoOwnSubtree ==
    (/\ Returned /\ Moved \in Resources
     /\ \/ call.new_parent_id = Moved
        \/ IsDescendant(old_parent_id, call.new_parent_id, Moved))
    => /\ outcome = "TreePath"
       /\ parent_id = old_parent_id
       /\ ordering = old_ordering

\* The new parent lies three levels below the moved resource.
C6_Witness ==
    /\ Returned /\ outcome = "TreePath" /\ Moved \in Resources
    /\ call.new_parent_id \in Resources
    /\ Up(old_parent_id, call.new_parent_id, 3) = Moved

\* C7: when one of the four domain errors is raised, no parent_id and no
\* ordering has changed.
C7_ErrorsLeaveTable ==
    (Returned /\ outcome \in DomainErrors)
    => /\ parent_id = old_parent_id
       /\ ordering = old_ordering

\* The sibling-count boundary check rejects a reparent whose old parent has
\* siblings above the moved row (rows the first update would shift).
C7_Witness ==
    /\ Returned /\ outcome = "OutOfBoundary" /\ Reparent
    /\ call.to_position >= 1
    /\ \E s \in Children(old_parent_id, old_parent_id[Moved]) :
         old_ordering[s] > old_ordering[Moved]

\* C8: move_to_position(R, R.ordering) without a reparent raises the
\* wrong-position error; with a reparent requested no call is rejected with
\* that error.
C8_SamePosition ==
    (Returned /\ Moved \in Resources)
    => /\ (~Reparent /\ call.to_position = old_ordering[Moved])
            => outcome = "WrongPosition"
       /\ Reparent => outcome # "WrongPosition"

C8_Witness ==
    /\ Returned /\ Moved \in Resources /\ ~Reparent
    /\ call.to_position = old_ordering[Moved]
    /\ outcome = "WrongPosition"
    /\ old_parent_id[Moved] \in Resources

\* C9: without a reparent, position 0 and position N+2 (N the number of
\* children of R's parent) raise the out-of-boundary error; with a reparent
\* to a valid new parent holding M children, every position above M+1
\* raises it.
C9_OutOfBoundary ==
    (Returned /\ Moved \in Resources)
    => LET N == Cardinality(Children(old_parent_id, old_parent_id[Moved]))
           M == Cardinality(Children(old_parent_id, call.new_parent_id))
           validParent ==
               /\ call.new_parent_id \in Resources \cup {NONE}
               /\ call.new_parent_id # old_parent_id[Moved]
               /\ call.new_parent_id # Moved
               /\ ~IsDescendant(old_parent_id, call.new_parent_id, Moved)
       IN  /\ (~Reparent /\ call.to_position = 0) => outcome = "OutOfBoundary"
           /\ (~Reparent /\ call.to_position = N + 2) => outcome = "OutOfBoundary"
           /\ (Reparent /\ validParent /\ call.to_position > M + 1)
                => outcome = "OutOfBoundary"

\* C10: an explicit new_parent_id that is not None and names no resource
\* raises the tree-missing error; an explicit None is never reported as
\* missing and a successful call with it puts the resource at the forest
\* root, whereas a successful call with new_parent_id unset keeps the parent.
C10_MissingParent ==
    (Returned /\ Moved \in Resources)
    => /\ (Reparent /\ call.new_parent_id # NONE
              /\ call.new_parent_id \notin Resources)
            => outcome = "TreeMissing"
       /\ call.new_parent_id = NONE
            => /\ outcome # "TreeMissing"
               /\ outcome = "True" => parent_id[Moved] = NONE
       /\ (~Reparent /\ outcome = "True")
            => parent_id[Moved] = old_parent_id[Moved]

\* A resource with a parent is moved to the forest root by an explicit None.
C10_Witness ==
    /\ Succeeded /\ call.new_parent_id = NONE
    /\ old_parent_id[Moved] \in Resources
    /\ parent_id[Moved] = NONE

\* The rejection conditions of a call, read off the table before the call.
Rejected ==
    LET np == call.new_parent_id
        p == call.to_position
        target == IF Reparent THEN np ELSE old_parent_id[Moved]
        count == Cardinality(Children(old_parent_id, target))
    IN  \/ Reparent /\ np = old_parent_id[Moved]
        \/ Reparent /\ np \notin Resources \cup {NONE}
        \/ Reparent /\ (np = Moved \/ IsDescendant(old_parent_id, np, Moved))
        \/ ~Reparent /\ p = old_ordering[Moved]
        \/ p < 1
        \/ ~Reparent /\ p > count
        \/ Reparent /\ p > count + 1

\* C15: a call on an existing resource that meets none of the rejection
\* conditions returns True (a reorder among the roots and an append as last
\* child included).
C15_AcceptedCallsReturnTrue ==
    (Returned /\ Moved \in Resources /\ ~Rejected) => outcome = "True"

\* C16: in a cross-branch move of X with old ordering k, the remaining
\* children of the old parent above k go up by exactly 1 and those below k
\* keep their ordering.
C16_OldBranchShift ==
    (Succeeded /\ Reparent)
    => \A s \in Children(old_parent_id, old_parent_id[Moved]) \ {Moved} :
         /\ old_ordering[s] > old_ordering[Moved]
              => ordering[s] = old_ordering[s] + 1
         /\ old_ordering[s] < old_ordering[Moved]
              => ordering[s] = old_ordering[s]

\* The moved row leaves a sibling below it and a sibling above it behind.
C16_Witness ==
    /\ Succeeded /\ Reparent
    /\ \E a, b \in Children(old_parent_id, old_parent_id[Moved]) :
         /\ old_ordering[a] < old_ordering[Moved]
         /\ old_ordering[b] > old_ordering[Moved]
         /\ ordering[b] = old_ordering[b] + 1

\* C19: a successful move changes no parent_id but the moved row's, changes
\* ordering only on the moved row and on children of its old and (for a
\* reparent) new parent, and adds or removes no row; a same-branch reorder
\* changes no parent_id at all.
C19_Frame ==
    Succeeded
    => /\ DOMAIN parent_id = Resources
       /\ DOMAIN ordering = Resources
       /\ \A x \in Resources \ {Moved} : parent_id[x] = old_parent_id[x]
       /\ \A x \in Resources :
            ordering[x] # old_ordering[x]
            => \/ x = Moved
               \/ old_parent_id[x] = old_parent_id[Moved]
               \/ Reparent /\ old_parent_id[x] = call.new_parent_id
       /\ ~Reparent => parent_id = old_parent_id

\* A reparent that shifts a row while a row under a third parent stays put.
C19_Witness ==
    /\ Succeeded /\ Reparent
    /\ \E x \in Resources \ {Moved} : ordering[x] # old_ordering[x]
    /\ \E y \in Resources \ {Moved} :
         /\ old_parent_id[y] # old_parent_id[Moved]
         /\ old_parent_id[y] # call.new_parent_id
         /\ old_ordering[y] >= call.to_position

\* C20: after any sequence of successful moves no two children of one parent
\* share an ordering and every ordering is at least 1.
C20_UniquePositive ==
    /\ \A x, y \in Resources :
         (x # y /\ parent_id[x] = parent_id[y]) => ordering[x] # ordering[y]
    /\ \A x \in Resources : ordering[x] >= 1

\* A second successful move ends in a sibling group that is not 1..N.
C20_Witness ==
    /\ Succeeded /\ ncalls >= 2
    /\ \E pid \in Resources \cup {NONE} : ~Numbered(parent_id, ordering, pid)

\* The row locks transaction t holds.
Held(t) == {x \in Resources : rowlock[x] = t}

\* The rows lock_resource_for_update returns to t: the moved row, its parent
\* as loaded at line 376, and the new parent of a reparent.
MovedRow(t) == {targs[t].resource_id}
ParentRow(t) == {resource[t].parent_id} \cap Resources
NewParentRow(t) ==
    IF targs[t].new_parent_id = NOOP THEN {}
    ELSE {targs[t].new_parent_id} \cap Resources

HasWritten(t) == tx_ordering[t] # NoWrites \/ tx_parent_id[t] # NoWrites

\* C17: a call takes its locks in the order moved row, current parent, new
\* parent (the last only for a reparent), and writes no ordering or parent_id
\* before it holds all of them.
C17_LockOrder ==
    \A t \in Txns :
      /\ tpc[t] \in {"idle", "lock_resource"} => Held(t) = {}
      /\ tpc[t] = "lock_parent" => Held(t) = MovedRow(t)
      /\ tpc[t] = "lock_new_parent" => Held(t) = MovedRow(t) \cup ParentRow(t)
      /\ tpc[t] \in {"path_upper", "count"}
           => Held(t) = MovedRow(t) \cup ParentRow(t) \cup NewParentRow(t)
      /\ tpc[t] \in {"idle", "lock_resource", "lock_parent", "lock_new_parent",
                     "path_upper", "count"} => ~HasWritten(t)
      /\ HasWritten(t)
           => MovedRow(t) \cup ParentRow(t) \cup NewParentRow(t) \subseteq Held(t)

\* A reparent between two existing parents has written a row while the other
\* transaction is still in its locking steps.
C17_Witness ==
    \E t, u \in Txns :
      /\ t # u
      /\ HasWritten(t)
      /\ ParentRow(t) # {} /\ NewParentRow(t) # {}
      /\ ParentRow(t) # NewParentRow(t)
      /\ tpc[u] \in {"lock_parent", "lock_new_parent"}

\* C11: for every user U, direct_perms_for_user and group_perms_for_user
\* return, every tuple they return is (as a whole tuple) in
\* perms_for_user(R, U), and an owning user gets an ALL_PERMISSIONS tuple of
\* type "user" flagged as an owner grant.
C11_PermsIncludeDirectAndGroup ==
    perm_call.fn = "perms_for_user"
    => LET u == perm_call.user
           direct == direct_perms_for_user(perm_db, u)
           group == group_perms_for_user(perm_db, u)
       IN  /\ direct.raised = "none"
           /\ group.raised = "none"
           /\ direct.tuples \subseteq perm_result.tuples
           /\ group.tuples \subseteq perm_result.tuples
           /\ perm_db.owner_user_id = u
                => \E p \in perm_result.tuples :
                     /\ p.perm_name = ALL_PERMISSIONS
                     /\ p.type = "user" /\ p.owner

\* C12: users_for_perm with skip_group_perms set returns no tuple of type
\* "group", whoever owns the resource and whatever the other arguments.
C12_SkipGroupPerms ==
    (perm_call.fn = "users_for_perm" /\ perm_call.skip_group_perms)
    => \A p \in perm_result.tuples : p.type # "group"

\* The resource is owned by a group with members and has a group grant.
C12_Witness ==
    /\ perm_call.fn = "users_for_perm" /\ perm_call.skip_group_perms
    /\ perm_db.owner_group_id # NONE
    /\ group_users(perm_db, perm_db.owner_group_id) # {}
    /\ perm_db.group_perms # {}
    /\ perm_result.tuples # {}

\* The owner grants among the tuples of a result.
OwnerGrants(tuples, type) ==
    {p \in tuples : p.perm_name = ALL_PERMISSIONS /\ p.owner /\ p.type = type}

OwnerGroupGrant(u) ==
    PermissionTuple(u, ALL_PERMISSIONS, "group", perm_db.owner_group_id,
                    "instance", TRUE, TRUE)

RECURSIVE OrderingPath(_, _, _)
OrderingPath(tb, x, depth) ==
    IF depth = 0 THEN <<>>
    ELSE Append(OrderingPath(tb, tb.par[x], depth - 1), tb.ord[x])

\* a comes before b in the pre-order: a is an ancestor of b, or where their
\* paths part a's side has the smaller ordering.
Precedes(a, b) ==
    \/ Len(a) < Len(b) /\ SubSeq(b, 1, Len(a)) = a
    \/ \E i \in 1..Len(a) :
         /\ i <= Len(b)
         /\ SubSeq(a, 1, i - 1) = SubSeq(b, 1, i - 1)
         /\ a[i] < b[i]

\* C18: the rows of from_resource_deeper and from_parent_deeper come in
\* pre-order with siblings by ascending numeric ordering, for any number of
\* siblings.
C18_PreOrder ==
    nav_call.fn # "none"
    => \A i, j \in 1..Len(nav_rows) :
         i < j => Precedes(OrderingPath(nav_table, nav_rows[i].resource_id,
                                        nav_rows[i].depth),
                           OrderingPath(nav_table, nav_rows[j].resource_id,
                                        nav_rows[j].depth))

\* Transaction t cannot take its next step before u releases a row lock.
WaitsFor(t, u) ==
    \/ tpc[t] = "lock_resource" /\ rowlock[targs[t].resource_id] = u
    \/ /\ tpc[t] = "lock_parent"
       /\ resource[t].parent_id \in Resources
       /\ rowlock[resource[t].parent_id] = u
    \/ /\ tpc[t] = "lock_new_parent"
       /\ targs[t].new_parent_id \in Resources
       /\ rowlock[targs[t].new_parent_id] = u
    \/ /\ tpc[t] \in {"same_branch_rows", "old_branch_rows", "new_branch_rows"}
       /\ todo[t] # {}
       /\ \A x \in todo[t] : rowlock[x] = u

\* C21: two concurrent move_to_position transactions never reach a state in
\* which each waits for a row lock the other holds.
C21_NoMutualWait ==
    \A t, u \in Txns : t # u => ~(WaitsFor(t, u) /\ WaitsFor(u, t))

====
